---- MODULE Spec2Model ----
(***************************************************************************)
(* Model of the spotify-datawarehouse scripts:                              *)
(*   redshift_iac.py   init / status / delete of role, security group and   *)
(*                     Redshift cluster (specification Spec)                *)
(*   create_tables.py  drop_tables + create_tables      (specification      *)
(*   etl.py            load_staging_tables + insert_tables   SqlSpec)       *)
(*   sql_queries.py    the statement lists the two scripts execute          *)
(***************************************************************************)
EXTENDS Integers, Sequences, FiniteSets, TLC

VARIABLES
    \* ---- provider state seen by redshift_iac.py
    role,        \* the IAM role "dwh_iam_role": [exists, policies]
    sg,          \* the security group "redshift_security_group": [exists, ingress]
    cluster,     \* ClusterIds -> [status, endpoint, usesSg]
    \* ---- dwh.cfg
    cfg,         \* [cluster_id, arn, host]
    \* ---- the running lifecycle command
    cmd,         \* "none" | "init" | "status" | "delete"
    pc,          \* position inside the command
    exit,        \* "running" | "ok" | "raised"
    iam_role,    \* init's local: the ARN create_iam_role returned
    sec_group,   \* init's local: the security group object
    info,        \* status's locals: <<cluster_status, dwh_endpoint>>
    calls,       \* provider API calls of the current command, in order
    returnedArn, \* the ARN the latest completed create_iam_role returned
    \* ---- warehouse database seen by create_tables.py and etl.py
    tables,      \* TableNames -> [exists, createdIn, rows]
    s3,          \* the fixture in object storage: [events, songs]
    script,      \* "none" | "schema" | "etl"
    spc,         \* [phase, i]: position inside the script
    sexit,       \* "running" | "ok" | "raised"
    conn,        \* "none" | "open" | "closed"
    runs,        \* the scripts started so far, in order
    executed,    \* statements whose execute() was called in this run
    committed,   \* statements committed in this run
    envFault     \* a failure of the connection or the server hit this run

iacVars == <<role, sg, cluster, cfg, cmd, pc, exit, iam_role, sec_group, info, calls,
             returnedArn>>
sqlVars == <<tables, s3, script, spc, sexit, conn, runs, executed, committed,
             envFault>>
vars == <<role, sg, cluster, cfg, cmd, pc, exit, iam_role, sec_group, info, calls,
          returnedArn, tables, s3, script, spc, sexit, conn, runs, executed,
          committed, envFault>>

(***************************************************************************)
(* redshift_iac.py                                                          *)
(***************************************************************************)

\* The identifiers CLUSTER.cluster_id may be configured to.
ClusterIds == {"dwhCluster", "sparkify"}

\* What requests.get("https://ifconfig.me") can give back.
PublicIps == {"ip1", "ip2"}

None == "None"
S3ReadOnly == "arn:aws:iam::aws:policy/AmazonS3ReadOnlyAccess"
iam_RoleName == "dwh_iam_role"
group_name == "redshift_security_group"

\* The ARN of a role is a function of its name.
RoleArn(name) ==
    IF name = "dwh_iam_role" THEN "arn:aws:iam::000000000000:role/dwh_iam_role"
    ELSE "arn:aws:iam::000000000000:role/other"

\* The endpoint address of a cluster.
EndpointOf(id) ==
    IF id = "dwhCluster" THEN "dwhcluster.redshift.amazonaws.com"
    ELSE "sparkify.redshift.amazonaws.com"

Call(api, result) == [api |-> api, result |-> result]

\* One provider API call: a failure of the service itself (fault), else the
\* error the provider state forces (err, "ok" when none).
Outcome(fault, err) == IF fault THEN "ServiceFailure" ELSE err

Truthy(x) == x \notin {None, ""}

NoRole == [exists |-> FALSE, policies |-> {}]
NoGroup == [exists |-> FALSE, ingress |-> {}]
NoCluster == [status |-> "absent", endpoint |-> None, usesSg |-> FALSE]

\* Each function below is the source function as a map from the provider state
\* it reads (and the service failures f1, f2, ... of its API calls, in call
\* order) to: the provider state it leaves, the API calls it made, whether an
\* exception left the function, and what it returned.

\* create_iam_role with the try/except around create_role left out.
create_iam_role_uncaught(r, f1, f2, f3) ==
    LET c1 == Outcome(f1, IF r.exists THEN "EntityAlreadyExists" ELSE "ok")
        r1 == IF c1 = "ok" THEN [exists |-> TRUE, policies |-> {}] ELSE r
        c2 == Outcome(f2, IF r1.exists THEN "ok" ELSE "NoSuchEntity")
        r2 == IF c2 = "ok" THEN [r1 EXCEPT !.policies = @ \cup {S3ReadOnly}] ELSE r1
        c3 == Outcome(f3, IF r2.exists THEN "ok" ELSE "NoSuchEntity")
        k1 == <<Call("create_role", c1)>>
        k2 == k1 \o <<Call("attach_role_policy", c2)>>
        k3 == k2 \o <<Call("get_role", c3)>>
    IN  IF c1 # "ok"
        THEN [role |-> r1, calls |-> k1, raised |-> TRUE, ret |-> None]
        ELSE IF c2 # "ok"
        THEN [role |-> r1, calls |-> k2, raised |-> TRUE, ret |-> None]
        ELSE IF c3 # "ok"
        THEN [role |-> r2, calls |-> k3, raised |-> TRUE, ret |-> None]
        ELSE [role |-> r2, calls |-> k3, raised |-> FALSE,
              ret |-> RoleArn(iam_RoleName)]

create_iam_role(r, f1, f2, f3) ==
    LET \* try: iam.create_role(...)  except Exception as e: print(e)
        c1 == Outcome(f1, IF r.exists THEN "EntityAlreadyExists" ELSE "ok")
        r1 == IF c1 = "ok" THEN [exists |-> TRUE, policies |-> {}] ELSE r
        \* iam.attach_role_policy(...): attaching an attached policy succeeds
        c2 == Outcome(f2, IF r1.exists THEN "ok" ELSE "NoSuchEntity")
        r2 == IF c2 = "ok" THEN [r1 EXCEPT !.policies = @ \cup {S3ReadOnly}] ELSE r1
        \* iam.get_role(...)["Role"]["Arn"]
        c3 == Outcome(f3, IF r2.exists THEN "ok" ELSE "NoSuchEntity")
        k1 == <<Call("create_role", c1)>>
        k2 == k1 \o <<Call("attach_role_policy", c2)>>
        k3 == k2 \o <<Call("get_role", c3)>>
    IN  IF c2 # "ok"
        THEN [role |-> r1, calls |-> k2, raised |-> TRUE, ret |-> None]
        ELSE IF c3 # "ok"
        THEN [role |-> r2, calls |-> k3, raised |-> TRUE, ret |-> None]
        ELSE [role |-> r2, calls |-> k3, raised |-> FALSE,
              ret |-> RoleArn(iam_RoleName)]

delete_iam_role(r, f1, f2) ==
    LET \* iam.detach_role_policy(...)
        c1 == Outcome(f1, IF r.exists /\ S3ReadOnly \in r.policies
                          THEN "ok" ELSE "NoSuchEntity")
        r1 == IF c1 = "ok" THEN [r EXCEPT !.policies = @ \ {S3ReadOnly}] ELSE r
        \* iam.delete_role(...)
        c2 == Outcome(f2, IF ~r1.exists THEN "NoSuchEntity"
                          ELSE IF r1.policies # {} THEN "DeleteConflict" ELSE "ok")
        r2 == IF c2 = "ok" THEN NoRole ELSE r1
        k1 == <<Call("detach_role_policy", c1)>>
        k2 == k1 \o <<Call("delete_role", c2)>>
    IN  IF c1 # "ok"
        THEN [role |-> r1, calls |-> k1, raised |-> TRUE]
        ELSE IF c2 # "ok"
        THEN [role |-> r1, calls |-> k2, raised |-> TRUE]
        ELSE [role |-> r2, calls |-> k2, raised |-> FALSE]

create_security_group(g, f) ==
    LET c == Outcome(f, IF g.exists THEN "InvalidGroup.Duplicate" ELSE "ok")
        k == <<Call("create_security_group", c)>>
    IN  IF c = "ok"
        THEN [sg |-> [exists |-> TRUE, ingress |-> {}], calls |-> k,
              raised |-> FALSE, ret |-> group_name]
        \* except Exception: print(...); then `return security_group` reads a
        \* local that was never bound: UnboundLocalError leaves the function
        ELSE [sg |-> g, calls |-> k, raised |-> TRUE, ret |-> None]

\* What the HTTP GET of https://ifconfig.me gives: an error, or a body.
HttpResponses == {"RequestException", ""} \cup PublicIps

get_public_ip(resp) == IF resp = "RequestException" THEN None ELSE resp

create_redshift_cluster(cl, id, f) ==
    LET c == Outcome(f, IF cl[id].status # "absent"
                        THEN "ClusterAlreadyExists" ELSE "ok")
    IN  [cluster |-> IF c = "ok"
                     THEN [cl EXCEPT ![id] = [status |-> "creating",
                                              endpoint |-> None,
                                              usesSg |-> TRUE]]
                     ELSE cl,
         calls |-> <<Call("create_cluster", c)>>,
         raised |-> FALSE]

delete_security_group(g, cl, f1, f2) ==
    LET \* list(ec2_resource.security_groups.filter(...))
        c1 == Outcome(f1, "ok")
        inUse == \E id \in ClusterIds : cl[id].status # "absent" /\ cl[id].usesSg
        \* security_group_obj.delete(...)
        c2 == Outcome(f2, IF inUse THEN "DependencyViolation" ELSE "ok")
        k1 == <<Call("describe_security_groups", c1)>>
        k2 == k1 \o <<Call("delete_security_group", c2)>>
    IN  IF c1 # "ok" \/ ~g.exists
        THEN [sg |-> g, calls |-> k1, raised |-> FALSE]
        ELSE [sg |-> IF c2 = "ok" THEN NoGroup ELSE g, calls |-> k2,
              raised |-> FALSE]

\* The identifier get_cluster_info asks the provider about.
DescribedClusterId == "dwhCluster"

\* get_cluster_info with the test on the cluster status left out.
get_cluster_info_unguarded(cl, f) ==
    LET c == Outcome(f, IF cl[DescribedClusterId].status = "absent"
                        THEN "ClusterNotFound" ELSE "ok")
        k == <<Call("describe_clusters", c)>>
        cluster_status == cl[DescribedClusterId].status
        address == cl[DescribedClusterId].endpoint
    IN  IF c # "ok" \/ address = None
        THEN [calls |-> k, raised |-> FALSE, ret |-> <<None, None>>]
        ELSE [calls |-> k, raised |-> FALSE, ret |-> <<cluster_status, address>>]

get_cluster_info(cl, f) ==
    LET c == Outcome(f, IF cl[DescribedClusterId].status = "absent"
                        THEN "ClusterNotFound" ELSE "ok")
        k == <<Call("describe_clusters", c)>>
        cluster_status == cl[DescribedClusterId].status
        \* response["Clusters"][0]["Endpoint"]["Address"]; no such key: KeyError
        address == cl[DescribedClusterId].endpoint
    IN  IF c # "ok"
        THEN [calls |-> k, raised |-> FALSE, ret |-> <<None, None>>]
        ELSE IF cluster_status = "available"
        THEN IF address = None
             THEN [calls |-> k, raised |-> FALSE, ret |-> <<None, None>>]
             ELSE [calls |-> k, raised |-> FALSE,
                   ret |-> <<cluster_status, address>>]
        ELSE [calls |-> k, raised |-> FALSE, ret |-> <<cluster_status, None>>]

delete_redshift_cluster(cl, id, f) ==
    LET c == Outcome(f, IF cl[id].status = "absent" THEN "ClusterNotFound"
                        ELSE IF cl[id].status # "available"
                        THEN "InvalidClusterState" ELSE "ok")
    IN  [cluster |-> IF c = "ok"
                     THEN [cl EXCEPT ![id].status = "deleting"]
                     ELSE cl,
         calls |-> <<Call("delete_cluster", c)>>,
         raised |-> FALSE]

\* ---- the three commands, one action per call they make

Raise(k) ==
    /\ pc' = "idle"
    /\ exit' = "raised"
    /\ calls' = calls \o k

Goto(next, k) ==
    /\ pc' = next
    /\ exit' = "running"
    /\ calls' = calls \o k

Return(k) ==
    /\ pc' = "idle"
    /\ exit' = "ok"
    /\ calls' = calls \o k

\* fire.Fire({"init": init, "status": status, "delete": delete})
Start(c) ==
    /\ pc = "idle"
    /\ cmd' = c
    /\ pc' = CASE c = "init" -> "init_role"
               [] c = "status" -> "status"
               [] c = "delete" -> "delete_role"
    /\ exit' = "running"
    /\ calls' = <<>>
    /\ iam_role' = None
    /\ sec_group' = None
    /\ info' = <<None, None>>
    /\ UNCHANGED <<role, sg, cluster, cfg, returnedArn, sqlVars>>

\* init: iam_role = create_iam_role(iam)
InitRole ==
    /\ pc = "init_role"
    /\ \E f1, f2, f3 \in BOOLEAN :
        LET r == create_iam_role(role, f1, f2, f3)
        IN  /\ role' = r.role
            /\ iam_role' = r.ret
            /\ returnedArn' = IF r.raised THEN returnedArn ELSE r.ret
            /\ IF r.raised THEN Raise(r.calls) ELSE Goto("init_group", r.calls)
    /\ UNCHANGED <<sg, cluster, cfg, cmd, sec_group, info, sqlVars>>

\* init: sec_group = create_security_group(ec2_client, ec2_resource)
InitGroup ==
    /\ pc = "init_group"
    /\ \E f \in BOOLEAN :
        LET r == create_security_group(sg, f)
        IN  /\ sg' = r.sg
            /\ sec_group' = r.ret
            /\ IF r.raised THEN Raise(r.calls) ELSE Goto("init_ingress", r.calls)
    /\ UNCHANGED <<role, cluster, cfg, cmd, iam_role, info, returnedArn, sqlVars>>

\* init: public_ip = get_public_ip(); if public_ip: authorize_ingress else raise
InitIngress ==
    /\ pc = "init_ingress"
    /\ \E resp \in HttpResponses, f \in BOOLEAN :
        LET public_ip == get_public_ip(resp)
            c == Outcome(f, IF ~sg.exists THEN "InvalidGroup.NotFound" ELSE "ok")
            k == <<Call("authorize_ingress", c)>>
        IN  IF Truthy(public_ip)
            THEN IF c = "ok"
                 THEN /\ sg' = [sg EXCEPT !.ingress = @ \cup {public_ip}]
                      /\ Goto("init_cluster", k)
                 ELSE /\ sg' = sg
                      /\ Raise(k)
            ELSE \* raise Exception("Failed to retrieve public IP address")
                 /\ sg' = sg
                 /\ Raise(<<>>)
    /\ UNCHANGED <<role, cluster, cfg, cmd, iam_role, sec_group, info,
                   returnedArn, sqlVars>>

\* init: create_redshift_cluster(redshift, iam_role, sec_group.id, num_nodes=2)
InitCluster ==
    /\ pc = "init_cluster"
    /\ \E f \in BOOLEAN :
        LET r == create_redshift_cluster(cluster, cfg.cluster_id, f)
        IN  /\ cluster' = r.cluster
            /\ Goto("init_config", r.calls)
    /\ UNCHANGED <<role, sg, cfg, cmd, iam_role, sec_group, info, returnedArn,
                   sqlVars>>

\* init: config["IAM_ROLE"]["ARN"] = iam_role; config.write(conf)
InitConfig ==
    /\ pc = "init_config"
    /\ cfg' = [cfg EXCEPT !.arn = iam_role]
    /\ Return(<<>>)
    /\ UNCHANGED <<role, sg, cluster, cmd, iam_role, sec_group, info,
                   returnedArn, sqlVars>>

\* status with the test `if cluster_status == "available"` left out: the
\* configuration is written after every poll.
Status_always_writes ==
    /\ pc = "status"
    /\ \E f \in BOOLEAN :
        LET r == get_cluster_info(cluster, f)
        IN  /\ info' = r.ret
            /\ cfg' = [cfg EXCEPT !.host = r.ret[2]]
            /\ Return(r.calls)
    /\ UNCHANGED <<role, sg, cluster, cmd, iam_role, sec_group, returnedArn,
                   sqlVars>>

\* status
Status ==
    /\ pc = "status"
    /\ \E f \in BOOLEAN :
        LET r == get_cluster_info(cluster, f)
        IN  /\ info' = r.ret
            /\ cfg' = IF r.ret[1] = "available"
                      THEN [cfg EXCEPT !.host = r.ret[2]]
                      ELSE cfg
            /\ Return(r.calls)
    /\ UNCHANGED <<role, sg, cluster, cmd, iam_role, sec_group, returnedArn,
                   sqlVars>>

\* delete: delete_iam_role(iam)
DeleteRole ==
    /\ pc = "delete_role"
    /\ \E f1, f2 \in BOOLEAN :
        LET r == delete_iam_role(role, f1, f2)
        IN  /\ role' = r.role
            /\ IF r.raised THEN Raise(r.calls) ELSE Goto("delete_cluster", r.calls)
    /\ UNCHANGED <<sg, cluster, cfg, cmd, iam_role, sec_group, info,
                   returnedArn, sqlVars>>

\* delete: delete_redshift_cluster(redshift, CLUSTER_ID); time.sleep(5) follows
DeleteCluster ==
    /\ pc = "delete_cluster"
    /\ \E f \in BOOLEAN :
        LET r == delete_redshift_cluster(cluster, cfg.cluster_id, f)
        IN  /\ cluster' = r.cluster
            /\ Goto("delete_group", r.calls)
    /\ UNCHANGED <<role, sg, cfg, cmd, iam_role, sec_group, info, returnedArn,
                   sqlVars>>

\* delete: delete_security_group(ec2_resource)
DeleteGroup ==
    /\ pc = "delete_group"
    /\ \E f1, f2 \in BOOLEAN :
        LET r == delete_security_group(sg, cluster, f1, f2)
        IN  /\ sg' = r.sg
            /\ Return(r.calls)
    /\ UNCHANGED <<role, cluster, cfg, cmd, iam_role, sec_group, info,
                   returnedArn, sqlVars>>

\* The provider finishes what it was asked: a creating cluster becomes available
\* and gets its endpoint, a deleting cluster disappears.
ProviderProgress(id) ==
    /\ cluster[id].status \in {"creating", "deleting"}
    /\ cluster' = IF cluster[id].status = "creating"
                  THEN [cluster EXCEPT ![id].status = "available",
                                       ![id].endpoint = EndpointOf(id)]
                  ELSE [cluster EXCEPT ![id] = NoCluster]
    /\ UNCHANGED <<role, sg, cfg, cmd, pc, exit, iam_role, sec_group, info,
                   calls, returnedArn, sqlVars>>

IacInit ==
    /\ role = NoRole
    /\ sg = NoGroup
    /\ cluster = [id \in ClusterIds |-> NoCluster]
    /\ cfg \in [cluster_id : ClusterIds, arn : {None}, host : {None}]
    /\ cmd = "none"
    /\ pc = "idle"
    /\ exit = "ok"
    /\ iam_role = None
    /\ sec_group = None
    /\ info = <<None, None>>
    /\ calls = <<>>
    /\ returnedArn = None

SqlIdle ==
    /\ tables = <<>>
    /\ s3 = <<>>
    /\ script = "none"
    /\ spc = <<>>
    /\ sexit = "ok"
    /\ conn = "none"
    /\ runs = <<>>
    /\ executed = <<>>
    /\ committed = <<>>
    /\ envFault = FALSE

Init == IacInit /\ SqlIdle

Next ==
    \/ \E c \in {"init", "status", "delete"} : Start(c)
    \/ InitRole
    \/ InitGroup
    \/ InitIngress
    \/ InitCluster
    \/ InitConfig
    \/ Status
    \/ DeleteRole
    \/ DeleteCluster
    \/ DeleteGroup
    \/ \E id \in ClusterIds : ProviderProgress(id)

Spec == Init /\ [][Next]_vars

(***************************************************************************)
(* sql_queries.py                                                           *)
(***************************************************************************)

TableNames == {"staging_events", "staging_songs", "users", "songs", "artists",
               "time", "songplays"}

\* DROP TABLES
staging_events_table_drop == [op |-> "DROP", table |-> "staging_events"]
staging_songs_table_drop == [op |-> "DROP", table |-> "staging_songs"]
songplay_table_drop == [op |-> "DROP", table |-> "songplays"]
user_table_drop == [op |-> "DROP", table |-> "users"]
song_table_drop == [op |-> "DROP", table |-> "songs"]
artist_table_drop == [op |-> "DROP", table |-> "artists"]
time_table_drop == [op |-> "DROP", table |-> "time"]

\* CREATE TABLES: the table and the tables its columns REFERENCE
staging_events_table_create ==
    [op |-> "CREATE", table |-> "staging_events", references |-> {}]
staging_songs_table_create ==
    [op |-> "CREATE", table |-> "staging_songs", references |-> {}]
songplay_table_create ==
    [op |-> "CREATE", table |-> "songplays",
     references |-> {"time", "users", "songs", "artists"}]
user_table_create == [op |-> "CREATE", table |-> "users", references |-> {}]
song_table_create == [op |-> "CREATE", table |-> "songs", references |-> {}]
artist_table_create == [op |-> "CREATE", table |-> "artists", references |-> {}]
time_table_create == [op |-> "CREATE", table |-> "time", references |-> {}]

\* STAGING TABLES: COPY <table> FROM <the S3 location of the config>
staging_events_copy == [op |-> "COPY", table |-> "staging_events", from |-> "events"]
staging_songs_copy == [op |-> "COPY", table |-> "staging_songs", from |-> "songs"]

\* FINAL TABLES: INSERT INTO <table> SELECT ... FROM <sources>
songplay_table_insert ==
    [op |-> "INSERT", table |-> "songplays",
     sources |-> {"staging_events", "staging_songs"}]
user_table_insert ==
    [op |-> "INSERT", table |-> "users", sources |-> {"staging_events"}]
song_table_insert ==
    [op |-> "INSERT", table |-> "songs", sources |-> {"staging_songs"}]
artist_table_insert ==
    [op |-> "INSERT", table |-> "artists", sources |-> {"staging_songs"}]
time_table_insert ==
    [op |-> "INSERT", table |-> "time", sources |-> {"staging_events"}]

\* QUERY LISTS
create_table_queries ==
    << staging_events_table_create,
       staging_songs_table_create,
       user_table_create,
       song_table_create,
       artist_table_create,
       time_table_create,
       songplay_table_create >>

\* The drop list with the referenced tables ahead of songplays, which references them.
drop_table_queries_naive ==
    << staging_events_table_drop,
       staging_songs_table_drop,
       user_table_drop,
       song_table_drop,
       artist_table_drop,
       time_table_drop,
       songplay_table_drop >>

drop_table_queries ==
    << staging_events_table_drop,
       staging_songs_table_drop,
       songplay_table_drop,
       user_table_drop,
       song_table_drop,
       artist_table_drop,
       time_table_drop >>

copy_table_queries == << staging_events_copy, staging_songs_copy >>

insert_table_queries ==
    << songplay_table_insert,
       user_table_insert,
       song_table_insert,
       artist_table_insert,
       time_table_insert >>

\* ---- what the statements do in the warehouse

NoTable == [exists |-> FALSE, createdIn |-> 0, rows |-> {}, references |-> {}]

\* The SELECT of each INSERT, over the staging rows; rows keep the key columns
\* and the columns the SELECT filters or joins on.  Tables are sets of rows:
\* how many copies of a row a table holds is not modelled.
Max(S) == CHOOSE m \in S : \A x \in S : x <= m

SongplaySelect(db) ==
    { [start_time |-> e.ts, user_id |-> e.userId,
       song_id |-> g.song_id, artist_id |-> g.artist_id] :
        <<e, g>> \in { p \in db["staging_events"].rows \X db["staging_songs"].rows :
                         /\ p[1].artist = p[2].artist_name
                         /\ p[1].length = p[2].duration
                         /\ p[1].song = p[2].title } }

UserSelect(db) ==
    LET ev == db["staging_events"].rows
    IN  { [user_id |-> e.userId] :
            e \in { x \in ev :
                      /\ x.page = "NextSong"
                      /\ x.userId # None
                      /\ x.ts = Max({ y.ts : y \in { z \in ev : z.userId = x.userId } }) } }

SongSelect(db) == { [song_id |-> g.song_id] : g \in db["staging_songs"].rows }

ArtistSelect(db) == { [artist_id |-> g.artist_id] : g \in db["staging_songs"].rows }

TimeSelect(db) == { [start_time |-> e.ts] : e \in db["staging_events"].rows }

Select(stmt, db) ==
    CASE stmt.table = "songplays" -> SongplaySelect(db)
      [] stmt.table = "users" -> UserSelect(db)
      [] stmt.table = "songs" -> SongSelect(db)
      [] stmt.table = "artists" -> ArtistSelect(db)
      [] stmt.table = "time" -> TimeSelect(db)

\* cur.execute(query) on the warehouse db: [ok, tables].  fixture is what the S3
\* locations hold, runNo the run that executes the statement.
Execute(stmt, db, fixture, runNo) ==
    CASE stmt.op = "DROP" ->
           \* DROP TABLE IF EXISTS: a missing table is skipped; a table another
           \* existing table references cannot be dropped
           IF ~db[stmt.table].exists
           THEN [ok |-> TRUE, tables |-> db]
           ELSE IF \E u \in TableNames \ {stmt.table} :
                       db[u].exists /\ stmt.table \in db[u].references
           THEN [ok |-> FALSE, tables |-> db]
           ELSE [ok |-> TRUE, tables |-> [db EXCEPT ![stmt.table] = NoTable]]
      [] stmt.op = "CREATE" ->
           \* CREATE TABLE IF NOT EXISTS: an existing table is kept; a referenced
           \* table must exist
           IF db[stmt.table].exists
           THEN [ok |-> TRUE, tables |-> db]
           ELSE IF \E u \in stmt.references : ~db[u].exists
           THEN [ok |-> FALSE, tables |-> db]
           ELSE [ok |-> TRUE,
                 tables |-> [db EXCEPT ![stmt.table] =
                               [exists |-> TRUE, createdIn |-> runNo, rows |-> {},
                                references |-> stmt.references]]]
      [] stmt.op = "COPY" ->
           IF ~db[stmt.table].exists
           THEN [ok |-> FALSE, tables |-> db]
           ELSE [ok |-> TRUE,
                 tables |-> [db EXCEPT ![stmt.table].rows = @ \cup fixture[stmt.from]]]
      [] stmt.op = "INSERT" ->
           \* the warehouse does not enforce REFERENCES on INSERT
           IF \E u \in stmt.sources \cup {stmt.table} : ~db[u].exists
           THEN [ok |-> FALSE, tables |-> db]
           ELSE [ok |-> TRUE,
                 tables |-> [db EXCEPT ![stmt.table].rows = @ \cup Select(stmt, db)]]

(***************************************************************************)
(* create_tables.py and etl.py                                              *)
(***************************************************************************)

\* Script runs a behaviour holds at most.
MaxRuns == 2

\* How one loop iteration can end: both calls work, cur.execute fails for a
\* reason outside the statement, conn.commit fails.
Outcomes == {"ok", "execute_fault", "commit_fault"}

\* The loop body with the failure of a statement printed and skipped.
run_query_swallow(stmt, db, fixture, runNo, outcome) ==
    LET r == Execute(stmt, db, fixture, runNo)
    IN  IF outcome # "ok" \/ ~r.ok
        THEN [tables |-> db, executed |-> <<stmt>>, committed |-> <<>>,
              raised |-> FALSE]
        ELSE [tables |-> r.tables, executed |-> <<stmt>>, committed |-> <<stmt>>,
              raised |-> FALSE]

\* The body of `for query in <list>`: cur.execute(query); conn.commit().
\* An exception of either call leaves the loop and the function; what the
\* failed statement did is not committed.
run_query(stmt, db, fixture, runNo, outcome) ==
    LET r == Execute(stmt, db, fixture, runNo)
    IN  IF outcome = "execute_fault" \/ ~r.ok
        THEN [tables |-> db, executed |-> <<stmt>>, committed |-> <<>>,
              raised |-> TRUE]
        ELSE IF outcome = "commit_fault"
        THEN [tables |-> db, executed |-> <<stmt>>, committed |-> <<>>,
              raised |-> TRUE]
        ELSE [tables |-> r.tables, executed |-> <<stmt>>, committed |-> <<stmt>>,
              raised |-> FALSE]

Idle == [phase |-> "idle", i |-> 0]

\* One iteration of the loop of a statement runner; after the last statement
\* main goes on with `next`.
Iterate(queries, next, outcome) ==
    LET r == run_query(queries[spc.i], tables, s3, Len(runs), outcome)
    IN  /\ tables' = r.tables
        /\ executed' = executed \o r.executed
        /\ committed' = committed \o r.committed
        /\ envFault' = (envFault \/ outcome # "ok")
        /\ IF r.raised
           THEN /\ spc' = Idle
                /\ sexit' = "raised"
           ELSE /\ spc' = IF spc.i < Len(queries)
                          THEN [spc EXCEPT !.i = @ + 1]
                          ELSE [phase |-> next, i |-> 1]
                /\ sexit' = sexit

\* main, up to conn.cursor(): psycopg2.connect(...) works or raises
Connect(name, first) ==
    /\ Len(runs) < MaxRuns
    /\ script' = name
    /\ runs' = Append(runs, name)
    /\ executed' = <<>>
    /\ committed' = <<>>
    /\ \E ok \in BOOLEAN :
        /\ conn' = IF ok THEN "open" ELSE "none"
        /\ spc' = IF ok THEN [phase |-> first, i |-> 1] ELSE Idle
        /\ sexit' = IF ok THEN "running" ELSE "raised"
        /\ envFault' = ~ok
    /\ UNCHANGED <<tables, s3, iacVars>>

\* create_tables.py
SchemaConnect ==
    /\ spc.phase = "idle"
    /\ Connect("schema", "drop_tables")

drop_tables ==
    /\ spc.phase = "drop_tables"
    /\ \E outcome \in Outcomes :
        Iterate(drop_table_queries, "create_tables", outcome)
    /\ UNCHANGED <<s3, script, conn, runs, iacVars>>

create_tables ==
    /\ spc.phase = "create_tables"
    /\ \E outcome \in Outcomes :
        Iterate(create_table_queries, "close", outcome)
    /\ UNCHANGED <<s3, script, conn, runs, iacVars>>

\* etl.py
EtlConnect ==
    /\ spc.phase = "idle"
    /\ Connect("etl", "load_staging_tables")

load_staging_tables ==
    /\ spc.phase = "load_staging_tables"
    /\ \E outcome \in Outcomes :
        Iterate(copy_table_queries, "insert_tables", outcome)
    /\ UNCHANGED <<s3, script, conn, runs, iacVars>>

insert_tables ==
    /\ spc.phase = "insert_tables"
    /\ \E outcome \in Outcomes :
        Iterate(insert_table_queries, "close", outcome)
    /\ UNCHANGED <<s3, script, conn, runs, iacVars>>

\* main's last line, in both scripts: conn.close()
Close ==
    /\ spc.phase = "close"
    /\ conn' = "closed"
    /\ spc' = Idle
    /\ sexit' = "ok"
    /\ UNCHANGED <<tables, s3, script, runs, executed, committed, envFault,
                   iacVars>>

\* ---- the data in object storage

s1 == [song_id |-> "SOAAA", artist_id |-> "ARAAA", artist_name |-> "Muse",
       title |-> "Uprising", duration |-> 300]
e1 == [ts |-> 1, userId |-> "u10", page |-> "NextSong", artist |-> "Muse",
       song |-> "Uprising", length |-> 300]
e2 == [ts |-> 2, userId |-> "u11", page |-> "NextSong", artist |-> "Muse",
       song |-> "Bliss", length |-> 250]
e3 == [ts |-> 3, userId |-> "u10", page |-> "Home", artist |-> None,
       song |-> None, length |-> 0]

Fixtures ==
    { [events |-> {e1}, songs |-> {s1}],
      [events |-> {e1, e2}, songs |-> {s1}],
      [events |-> {e1, e2, e3}, songs |-> {s1}] }

ReferencesOf(t) ==
    IF t = songplay_table_create.table THEN songplay_table_create.references ELSE {}

\* Any subset of the seven tables exists, empty, from before the first run; a
\* table exists only together with the tables it references.
SqlInit ==
    /\ \E E \in { X \in SUBSET TableNames :
                    \A t \in X : ReferencesOf(t) \subseteq X } :
        tables = [t \in TableNames |->
                    IF t \in E
                    THEN [exists |-> TRUE, createdIn |-> 0, rows |-> {},
                          references |-> ReferencesOf(t)]
                    ELSE NoTable]
    /\ s3 \in Fixtures
    /\ script = "none"
    /\ spc = Idle
    /\ sexit = "ok"
    /\ conn = "none"
    /\ runs = <<>>
    /\ executed = <<>>
    /\ committed = <<>>
    /\ envFault = FALSE

SqlSpecInit == IacInit /\ cfg.cluster_id = "dwhCluster" /\ SqlInit

SqlNext ==
    \/ SchemaConnect
    \/ drop_tables
    \/ create_tables
    \/ EtlConnect
    \/ load_staging_tables
    \/ insert_tables
    \/ Close

SqlSpec == SqlSpecInit /\ [][SqlNext]_vars

(***************************************************************************)
(* Properties of redshift_iac.py (checked under Spec)                       *)
(***************************************************************************)

ServiceWorked(k) == \A i \in 1..Len(k) : k[i].result # "ServiceFailure"

Apis(k) == { k[i].api : i \in 1..Len(k) }

\* C1: each of delete_iam_role, delete_redshift_cluster and delete_security_group,
\* invoked while its resource does not exist at the provider (the service itself
\* answering), does not raise to the caller.
C1_DeleteOfMissingResourceDoesNotRaise ==
    [][ /\ (pc = "delete_role" /\ ~role.exists /\ ServiceWorked(calls'))
            => exit' # "raised"
        /\ (pc = "delete_cluster" /\ cluster[cfg.cluster_id].status = "absent"
              /\ ServiceWorked(calls'))
            => exit' # "raised"
        /\ (pc = "delete_group" /\ ~sg.exists /\ ServiceWorked(calls'))
            => exit' # "raised" ]_vars

\* C2: when public-IP discovery fails in init (no authorize_ingress call is made),
\* init raises, no security group without an ingress rule is left at the
\* provider, and no create_cluster request has been issued.
C2_IpFailureLeavesNoHalfConfiguredGroup ==
    [][ (pc = "init_ingress" /\ pc' = "idle" /\ calls' = calls)
        => /\ exit' = "raised"
           /\ sg'.exists => sg'.ingress # {}
           /\ "create_cluster" \notin Apis(calls') ]_vars

\* C5: get_cluster_info returns (None, None) when describe_clusters fails,
\* (state, None) for every observed state other than "available", and
\* ("available", endpoint) with the provider's non-empty endpoint address when the
\* observed state is "available"; an endpoint never comes with another state.
C5_ClusterInfoMatchesObservedState ==
    [][ (pc = "status" /\ pc' = "idle")
        => LET observed == cluster[DescribedClusterId]
               failed == calls'[Len(calls')].result # "ok"
           IN  /\ failed => info' = <<None, None>>
               /\ (~failed /\ observed.status # "available")
                    => info' = <<observed.status, None>>
               /\ (~failed /\ observed.status = "available")
                    => /\ info' = <<"available", observed.endpoint>>
                       /\ Truthy(info'[2])
               /\ info'[2] # None => info'[1] = "available" ]_vars

\* A status poll that saw a cluster being deleted, its endpoint still assigned,
\* and returned no endpoint.
C5_Witness ==
    /\ cmd = "status"
    /\ pc = "idle"
    /\ calls = <<Call("describe_clusters", "ok")>>
    /\ cluster[DescribedClusterId].status = "deleting"
    /\ cluster[DescribedClusterId].endpoint # None
    /\ info = <<"deleting", None>>

\* A delete function has been entered once its first API call is in the log.
DeleteEntered == <<"detach_role_policy", "delete_cluster", "describe_security_groups">>

Pick(k, S) == SelectSeq(k, LAMBDA c : c.api \in S)

\* C7: every run of delete attempts all three deletions, in the order role,
\* cluster, security group, whatever exists when it starts.
C7_DeleteAttemptsAllThree ==
    (cmd = "delete" /\ pc = "idle")
        => LET k == Pick(calls, { DeleteEntered[i] : i \in 1..3 })
           IN  /\ Len(k) = 3
               /\ \A i \in 1..3 : k[i].api = DeleteEntered[i]

C10_AwsFunctionsNeverRaise ==
    [][ (pc \in {"init_role", "init_group", "init_cluster", "delete_cluster",
                 "delete_group", "status"})
        => exit' # "raised" ]_vars

\* C11: status writes the configuration only when the state it observed is
\* "available", and then sets CLUSTER.host to the endpoint of that poll and
\* nothing else; after any other poll (creating, deleting, no such cluster,
\* describe failure) the configuration is as it was.
C11_StatusPersistsEndpointOnlyWhenAvailable ==
    [][ (pc = "status" /\ pc' = "idle")
        => LET observed == cluster[DescribedClusterId]
               answered == calls'[Len(calls')].result = "ok"
           IN  IF answered /\ observed.status = "available"
               THEN /\ cfg' = [cfg EXCEPT !.host = observed.endpoint]
                    /\ cfg'.host = info'[2]
                    /\ Truthy(cfg'.host)
               ELSE cfg' = cfg ]_vars

\* A status poll that found no cluster any more, after its deletion, while the
\* host an earlier poll stored is still in the configuration.
C11_Witness ==
    /\ cmd = "status"
    /\ pc = "idle"
    /\ calls = <<Call("describe_clusters", "ClusterNotFound")>>
    /\ cluster[DescribedClusterId].status = "absent"
    /\ info = <<None, None>>
    /\ cfg.host = EndpointOf(DescribedClusterId)

\* C12: whatever CLUSTER.cluster_id is configured, status asks the provider
\* about the identifier init creates and delete deletes: a poll the service
\* answers reports the state of the configured cluster, and reports and stores
\* no endpoint but that cluster's.
C12_StatusObservesConfiguredCluster ==
    [][ (pc = "status" /\ pc' = "idle" /\ ServiceWorked(calls'))
        => LET mine == cluster[cfg.cluster_id]
           IN  /\ info'[1] = IF mine.status = "absent" THEN None ELSE mine.status
               /\ info'[2] \in {None, mine.endpoint}
               /\ cfg'.host \in {cfg.host, mine.endpoint} ]_vars

(***************************************************************************)
(* Properties of create_tables.py and etl.py (checked under SqlSpec)        *)
(***************************************************************************)

Keys(t, col) == { r[col] : r \in tables[t].rows }

\* C3: whenever insert_tables adds a songplays row, the users, songs, artists
\* and time rows its user_id, song_id, artist_id and start_time reference are
\* already in their tables.
C3_FactRowsReferenceExistingDimensionRows ==
    [][ \A r \in tables'["songplays"].rows \ tables["songplays"].rows :
          /\ r.user_id \in Keys("users", "user_id")
          /\ r.song_id \in Keys("songs", "song_id")
          /\ r.artist_id \in Keys("artists", "artist_id")
          /\ r.start_time \in Keys("time", "start_time") ]_vars

\* C4: a run of the schema script that meets no connection or server failure
\* raises no error, whatever tables existed before it, and ends with all seven
\* tables present, empty and created in that run; no step drops a table that an
\* existing table references, and no step creates a table before a table it
\* references.
C4_SchemaScriptRebuildsAllTables ==
    [][ /\ (script' = "schema" /\ ~envFault') => sexit' # "raised"
        /\ (script' = "schema" /\ spc' = Idle /\ sexit' = "ok")
            => \A t \in TableNames :
                 /\ tables'[t].exists
                 /\ tables'[t].createdIn = Len(runs')
                 /\ tables'[t].rows = {}
        /\ \A t \in TableNames :
             (tables[t].exists /\ ~tables'[t].exists)
                => \A u \in TableNames :
                     tables[u].exists => t \notin tables[u].references
        /\ \A t \in TableNames :
             (~tables[t].exists /\ tables'[t].exists)
                => \A u \in tables'[t].references : tables[u].exists ]_vars

\* The schema script has run twice in a row and the second run has ended.
C4_Witness ==
    /\ runs = <<"schema", "schema">>
    /\ spc = Idle
    /\ sexit = "ok"
    /\ conn = "closed"
    /\ \A t \in TableNames : tables[t].exists /\ tables[t].createdIn = 2

\* C6: in both scripts, once main has ended, by whatever path, the connection it
\* opened is closed.
C6_ConnectionClosedWhenMainEnds ==
    (script # "none" /\ spc = Idle) => conn # "open"

\* The statements a script executes when nothing fails, in order.
AllQueries(name) ==
    IF name = "schema"
    THEN drop_table_queries \o create_table_queries
    ELSE copy_table_queries \o insert_table_queries

IsPrefix(p, q) == Len(p) <= Len(q) /\ p = SubSeq(q, 1, Len(p))

\* C8: the runners execute their lists in list order, each statement at most
\* once, committing after every statement; when a statement fails the exception
\* ends the script, the statements before it stay committed and those after it
\* are never executed; etl.py executes no INSERT before both COPYs are committed.
C8_RunnersStopAtFirstFailure ==
    script # "none" =>
        /\ IsPrefix(committed, AllQueries(script))
        /\ IsPrefix(executed, AllQueries(script))
        /\ Len(executed) \in {Len(committed), Len(committed) + 1}
        /\ Len(executed) > Len(committed) => (sexit = "raised" /\ spc = Idle)
        /\ (sexit = "raised" /\ conn # "none") => Len(executed) = Len(committed) + 1
        /\ sexit = "running" =>
             spc = LET n == Len(committed)
                       a == Len(AllQueries(script)) - (IF script = "schema"
                                                       THEN Len(create_table_queries)
                                                       ELSE Len(insert_table_queries))
                   IN  IF n = Len(AllQueries(script)) THEN [phase |-> "close", i |-> 1]
                       ELSE IF n < a
                       THEN [phase |-> IF script = "schema" THEN "drop_tables"
                                       ELSE "load_staging_tables", i |-> n + 1]
                       ELSE [phase |-> IF script = "schema" THEN "create_tables"
                                       ELSE "insert_tables", i |-> n + 1 - a]
        /\ \A i \in 1..Len(committed) :
             /\ committed[i].op = "CREATE" =>
                  /\ tables[committed[i].table].exists
                  /\ tables[committed[i].table].createdIn = Len(runs)
             /\ committed[i].op = "COPY" =>
                  s3[committed[i].from] \subseteq tables[committed[i].table].rows
             /\ committed[i].op = "INSERT" =>
                  Select(committed[i], tables) \subseteq tables[committed[i].table].rows
        /\ (\E i \in 1..Len(executed) : executed[i].op = "INSERT")
             => IsPrefix(copy_table_queries, committed)

\* etl.py stopped at its fourth statement: both COPYs and the first INSERT are
\* committed, the second INSERT failed.
C8_Witness ==
    /\ script = "etl"
    /\ sexit = "raised"
    /\ spc = Idle
    /\ committed = copy_table_queries \o <<songplay_table_insert>>
    /\ executed = committed \o <<user_table_insert>>
    /\ tables["songplays"].rows # {}

====
